---------------------------- MODULE Spec2Model ----------------------------
(***************************************************************************)
(* Model of the boundless-receiver zkVM guest (zkvm/guest/src/main.rs).    *)
(*                                                                         *)
(* The guest reads {EthEvmInput, Address, u32} from the input channel,     *)
(* turns the input into a verified EVM environment, queries the            *)
(* TransferSent events of the given contract, picks the one at log_index   *)
(* and commits the ABI encoding of Journal{commitment, digest, emitter}.   *)
(* Every failure is a Rust panic: the guest halts and commits nothing.     *)
(*                                                                         *)
(* risc0_steel (into_env, Event::query, into_commitment) and alloy         *)
(* (abi_encode) are external crates; they are modelled at the interface    *)
(* the guest calls them through.                                           *)
(***************************************************************************)
EXTENDS Integers, Sequences, FiniteSets, TLC

VARIABLES
    stdin,          \* the input channel: the frames the host supplied, in order
    pc,             \* pc[r]: position of execution r in main
    input,          \* input[r]: `input: EthEvmInput`         (<<>> until read)
    contract_addr,  \* contract_addr[r]: `contract_addr`      (<<>> until read)
    log_index,      \* log_index[r]: `log_index: u32`         (<<>> until read)
    env,            \* env[r]: the EvmEnv built by into_env   (<<>> until built)
    log,            \* log[r]: the selected decoded log       (<<>> until selected)
    journal,        \* journal[r]: the blobs written to the output channel
    failure         \* failure[r]: the stage whose panic halted execution r

vars == <<stdin, pc, input, contract_addr, log_index, env, log, journal, failure>>

---------------------------------------------------------------------------
(* Bounds of the model. *)

\* longest log list of a block
MaxLogs == 2
\* largest small log index supplied (u32 extremes are added separately)
MaxIndex == 2
\* number of distinct blocks a bundle may prove
MaxBlock == 2

\* Executions of the guest: the invocation and an independent re-execution.
Runs == {1, 2}

---------------------------------------------------------------------------
(* Widths and layout constants of the program. *)

\* `let log_index: u32`
U32Bits == 32
\* `log_index as usize`: usize of the riscv32im guest target
UsizeBits == 32
\* `let mut padded = [0u8; 32]`
WordLen == 32
\* `padded[12..]`
PadLen == 12
\* alloy Address: the slice copied into padded[12..] must have this length
AddrLen == WordLen - PadLen

RECURSIVE Pow2(_)
Pow2(n) == IF n = 0 THEN 1 ELSE 2 * Pow2(n - 1)

\* A u32 is kept as its two 16-bit halves, value = hi * 2^16 + lo, so that
\* the full range of the type is represented.
HalfBits == U32Bits \div 2

U32(hi, lo) == [hi |-> hi, lo |-> lo]

U32Max == U32(Pow2(HalfBits) - 1, Pow2(HalfBits) - 1)

---------------------------------------------------------------------------
(* Values. *)

ConstBytes(n, b) == [i \in 1..n |-> b]

\* 20-byte addresses: 0xAA..AA, 0x0102..14 and 0x00..01
AddrAA   == ConstBytes(AddrLen, 170)
AddrSeq  == [i \in 1..AddrLen |-> i]
AddrOne  == [i \in 1..AddrLen |-> IF i = AddrLen THEN 1 ELSE 0]

Addresses == {AddrAA, AddrSeq, AddrOne}

\* topic0 of a log: the TransferSent signature hash or any other topic
EventSignature == "TransferSent"

\* bytes32 digests carried by the logs
DigestA == ConstBytes(WordLen, 208)
DigestB == ConstBytes(WordLen, 209)
DigestC == ConstBytes(WordLen, 210)

LogEntry(a, t, d) == [address |-> a, topic0 |-> t, digest |-> d]

\* The logs a block may hold: TransferSent of 0xAA..AA with either digest,
\* TransferSent of another contract, and another event of 0xAA..AA.
LogEntries ==
    {LogEntry(AddrAA, EventSignature, d) : d \in {DigestA, DigestB}}
    \cup {LogEntry(AddrSeq, EventSignature, DigestC), LogEntry(AddrAA, "Other", DigestC)}

RECURSIVE SeqsUpTo(_, _)
SeqsUpTo(S, n) ==
    IF n = 0 THEN {<<>>}
    ELSE LET shorter == SeqsUpTo(S, n - 1)
         IN  shorter \cup {Append(s, x) : s \in {t \in shorter : Len(t) = n - 1}, x \in S}

BlockLogs == SeqsUpTo(LogEntries, MaxLogs)

\* A serialized EthEvmInput frame: it may fail to deserialize, or deserialize
\* but fail verification against the chain specification; otherwise it proves
\* block `number` with receipt logs `logs`.
BundleFrames ==
    [decodes : {TRUE}, verifies : BOOLEAN, number : 1..MaxBlock, logs : BlockLogs]
    \cup {[decodes |-> FALSE, verifies |-> FALSE, number |-> 1, logs |-> <<>>]}

\* An address frame: a byte string; it deserializes iff it has AddrLen bytes.
AddrFrames == Addresses \cup {ConstBytes(AddrLen - 1, 170)}

\* A u32 frame: every 4-byte word is a u32.
Indices == {U32(0, n) : n \in 0..MaxIndex} \cup {U32(1, 0), U32Max}

\* The input channel holds the three frames in order, or a truncated prefix.
Channels ==
    {<<>>}
    \cup {<<b>> : b \in BundleFrames}
    \cup {<<b, a>> : b \in BundleFrames, a \in AddrFrames}
    \cup {<<b, a, i>> : b \in BundleFrames, a \in AddrFrames, i \in Indices}

---------------------------------------------------------------------------
(* Library interface, as the guest uses it. *)

\* A block is named by its number; its hash is a distinct 32-byte value.
BlockHash(n) == ConstBytes(WordLen, 176 + n)

\* Digest of the compiled-in chain specification.
ETH_MAINNET_CHAIN_SPEC == ConstBytes(WordLen, 1)

NoCommitment == [id |-> 0, digest |-> ConstBytes(WordLen, 0), configID |-> ConstBytes(WordLen, 0)]

\* Mutation: the bundle is taken as given, without verification.
into_env_unverified(bundle, chain_spec) ==
    <<[number |-> bundle.number, logs |-> bundle.logs, spec |-> chain_spec]>>

\* input.into_env(&ETH_MAINNET_CHAIN_SPEC): <<view>>, or <<>> when the
\* bundle does not verify and into_env panics.
into_env(bundle, chain_spec) ==
    IF bundle.verifies
    THEN <<[number |-> bundle.number, logs |-> bundle.logs, spec |-> chain_spec]>>
    ELSE <<>>

\* Mutation: Commitment::default() instead of the view's commitment.
into_commitment_default(view) == NoCommitment

\* env.into_commitment(): names the block of the view and the chain spec.
into_commitment(view) ==
    [id |-> view.number, digest |-> BlockHash(view.number), configID |-> view.spec]

\* Mutation: the address filter is left out of the query.
query_any_address(view, addr) ==
    SelectSeq(view.logs, LAMBDA l : l.topic0 = EventSignature)

\* Event::new::<TransferSent>(&env).address(addr).query(): the logs of the
\* block with that emitter and topic0, in the order of the block's log list.
query(view, addr) ==
    SelectSeq(view.logs, LAMBDA l : l.address = addr /\ l.topic0 = EventSignature)

---------------------------------------------------------------------------
(* The guest's own computations. *)

\* `log_index as usize`
as_usize(i) == U32(i.hi % Pow2(UsizeBits - HalfBits), i.lo)

\* Mutation: an out-of-range index is clamped to the last element.
IndexClamped(v, i) ==
    IF Len(v) = 0 THEN <<>>
    ELSE IF i.hi = 0 /\ i.lo < Len(v) THEN <<v[i.lo + 1]>> ELSE <<v[Len(v)]>>

\* Mutation: the index counts from the most recent event.
IndexFromEnd(v, i) == IF i.hi = 0 /\ i.lo < Len(v) THEN <<v[Len(v) - i.lo]>> ELSE <<>>

\* `v[i]` on a Vec: <<element>>, or <<>> when i is out of bounds (panic).
Index(v, i) == IF i.hi = 0 /\ i.lo < Len(v) THEN <<v[i.lo + 1]>> ELSE <<>>

\* Mutation: the address is copied to the front, padded[..20].
to_universal_address_right_padded(addr) ==
    [i \in 1..WordLen |-> IF i <= AddrLen THEN addr[i] ELSE 0]

\* fn to_universal_address(addr: Address) -> FixedBytes<32>
to_universal_address(addr) ==
    LET padded == ConstBytes(WordLen, 0)
    IN  [i \in 1..WordLen |-> IF i > PadLen THEN addr[i - PadLen] ELSE padded[i]]

\* uint256 as one big-endian ABI word (the values modelled fit one byte)
UintWord(n) == [i \in 1..WordLen |-> IF i = WordLen THEN n ELSE 0]

\* Mutation: the two bytes32 fields are declared in the other order.
abi_encode_swapped(j) ==
    UintWord(j.commitment.id) \o j.commitment.digest \o j.commitment.configID
    \o j.emitterNttManager
    \o j.nttManagerMessageDigest

\* Journal.abi_encode(): a static tuple, its words concatenated in field order.
abi_encode(j) ==
    UintWord(j.commitment.id) \o j.commitment.digest \o j.commitment.configID
    \o j.nttManagerMessageDigest
    \o j.emitterNttManager

---------------------------------------------------------------------------
(* Execution. *)

Stages == {"read_input", "read_addr", "read_index", "into_env", "query", "commit",
           "done", "panicked"}

Failures == {"none", "InputDecodingError", "ViewReconstructionError", "EventNotFoundError"}

Init ==
    /\ stdin \in Channels
    /\ pc = [r \in Runs |-> "read_input"]
    /\ input = [r \in Runs |-> <<>>]
    /\ contract_addr = [r \in Runs |-> <<>>]
    /\ log_index = [r \in Runs |-> <<>>]
    /\ env = [r \in Runs |-> <<>>]
    /\ log = [r \in Runs |-> <<>>]
    /\ journal = [r \in Runs |-> <<>>]
    /\ failure = [r \in Runs |-> "none"]

\* A panic halts the guest: nothing further runs, nothing is committed.
Panic(r, kind) ==
    /\ pc' = [pc EXCEPT ![r] = "panicked"]
    /\ failure' = [failure EXCEPT ![r] = kind]

Goto(r, stage) ==
    /\ pc' = [pc EXCEPT ![r] = stage]
    /\ UNCHANGED failure

\* let input: EthEvmInput = env::read();
ReadInput(r) ==
    /\ pc[r] = "read_input"
    /\ IF Len(stdin) >= 1 /\ stdin[1].decodes
       THEN input' = [input EXCEPT ![r] = <<stdin[1]>>] /\ Goto(r, "read_addr")
       ELSE Panic(r, "InputDecodingError") /\ UNCHANGED input
    /\ UNCHANGED <<stdin, contract_addr, log_index, env, log, journal>>

\* let contract_addr: Address = env::read();
ReadAddr(r) ==
    /\ pc[r] = "read_addr"
    /\ IF Len(stdin) >= 2 /\ Len(stdin[2]) = AddrLen
       THEN contract_addr' = [contract_addr EXCEPT ![r] = stdin[2]] /\ Goto(r, "read_index")
       ELSE Panic(r, "InputDecodingError") /\ UNCHANGED contract_addr
    /\ UNCHANGED <<stdin, input, log_index, env, log, journal>>

\* let log_index: u32 = env::read();
ReadIndex(r) ==
    /\ pc[r] = "read_index"
    /\ IF Len(stdin) >= 3
       THEN log_index' = [log_index EXCEPT ![r] = <<stdin[3]>>]
            /\ Goto(r, "into_env")
       ELSE Panic(r, "InputDecodingError") /\ UNCHANGED log_index
    /\ UNCHANGED <<stdin, input, contract_addr, env, log, journal>>

\* let env = input.into_env(&ETH_MAINNET_CHAIN_SPEC);
IntoEnv(r) ==
    /\ pc[r] = "into_env"
    /\ LET view == into_env(input[r][1], ETH_MAINNET_CHAIN_SPEC)
       IN  IF view # <<>>
           THEN env' = [env EXCEPT ![r] = view] /\ Goto(r, "query")
           ELSE Panic(r, "ViewReconstructionError") /\ UNCHANGED env
    /\ UNCHANGED <<stdin, input, contract_addr, log_index, log, journal>>

\* Mutation: a missing event commits a journal with an empty digest.
QueryEventFallback(r) ==
    /\ pc[r] = "query"
    /\ LET found == Index(query(env[r][1], contract_addr[r]), as_usize(log_index[r][1]))
       IN  IF found # <<>>
           THEN log' = [log EXCEPT ![r] = found] /\ Goto(r, "commit")
                /\ UNCHANGED journal
           ELSE /\ Panic(r, "EventNotFoundError") /\ UNCHANGED log
                /\ journal' = [journal EXCEPT ![r] = Append(journal[r],
                        abi_encode([commitment |-> NoCommitment,
                                    nttManagerMessageDigest |-> ConstBytes(WordLen, 0),
                                    emitterNttManager |-> ConstBytes(WordLen, 0)]))]
    /\ UNCHANGED <<stdin, input, contract_addr, log_index, env>>

\* Mutation: the matching events come back in no particular order.
QueryEventUnordered(r) ==
    /\ pc[r] = "query"
    /\ LET matches == query(env[r][1], contract_addr[r])
           found == Index(matches, as_usize(log_index[r][1]))
       IN  IF found # <<>>
           THEN /\ \E p \in 1..Len(matches) : log' = [log EXCEPT ![r] = <<matches[p]>>]
                /\ Goto(r, "commit")
           ELSE Panic(r, "EventNotFoundError") /\ UNCHANGED log
    /\ UNCHANGED <<stdin, input, contract_addr, log_index, env, journal>>

\* Mutation: a missing event is retried instead of halting the guest.
QueryEventRetry(r) ==
    /\ pc[r] = "query"
    /\ LET found == Index(query(env[r][1], contract_addr[r]), as_usize(log_index[r][1]))
       IN  IF found # <<>>
           THEN log' = [log EXCEPT ![r] = found] /\ Goto(r, "commit")
           ELSE Goto(r, "into_env") /\ UNCHANGED log
    /\ UNCHANGED <<stdin, input, contract_addr, log_index, env, journal>>

\* let event = Event::new::<INttManager::TransferSent>(&env);
\* let log = &event.address(contract_addr).query()[log_index as usize];
QueryEvent(r) ==
    /\ pc[r] = "query"
    /\ LET found == Index(query(env[r][1], contract_addr[r]), as_usize(log_index[r][1]))
       IN  IF found # <<>>
           THEN log' = [log EXCEPT ![r] = found] /\ Goto(r, "commit")
           ELSE Panic(r, "EventNotFoundError") /\ UNCHANGED log
    /\ UNCHANGED <<stdin, input, contract_addr, log_index, env, journal>>

\* let journal = Journal { .. }; env::commit_slice(&journal.abi_encode());
Commit(r) ==
    /\ pc[r] = "commit"
    /\ LET j == [commitment |-> into_commitment(env[r][1]),
                 nttManagerMessageDigest |-> log[r][1].digest,
                 emitterNttManager |-> to_universal_address(contract_addr[r])]
       IN  journal' = [journal EXCEPT ![r] = Append(journal[r], abi_encode(j))]
    /\ Goto(r, "done")
    /\ UNCHANGED <<stdin, input, contract_addr, log_index, env, log>>

\* fn main(), executed by run r
main(r) ==
    \/ ReadInput(r)
    \/ ReadAddr(r)
    \/ ReadIndex(r)
    \/ IntoEnv(r)
    \/ QueryEvent(r)
    \/ Commit(r)

\* One invocation of the guest.
Next == main(1)

Spec == Init /\ [][Next]_vars

\* One invocation; the guest runs without suspension until it halts.
FairSpec == Spec /\ WF_vars(Next)

\* The invocation and an independent re-execution on the same input channel.
PairNext == \E r \in Runs : main(r)

PairSpec == Init /\ [][PairNext]_vars

---------------------------------------------------------------------------
(* Vocabulary of the properties, stated on the input channel and the       *)
(* output channel, independently of the operators the guest computes with. *)

Terminal(r) == pc[r] \in {"done", "panicked"}

\* all three frames are present and deserialize
Decodes == Len(stdin) = 3 /\ stdin[1].decodes /\ Len(stdin[2]) = AddrLen

\* ... and the bundle reconstructs into a verified view
Verifies == Decodes /\ stdin[1].verifies

\* positions in the block's log list of the events matching {addr, TransferSent}
MatchingPositions(logs, addr) ==
    {p \in 1..Len(logs) : logs[p].address = addr /\ logs[p].topic0 = EventSignature}

\* k: the number of matching events
MatchCount == Cardinality(MatchingPositions(stdin[1].logs, stdin[2]))

\* position in the log list of the i-th (0-based) matching event in emission order
NthMatch(logs, addr, i) ==
    CHOOSE p \in MatchingPositions(logs, addr) :
        Cardinality({q \in MatchingPositions(logs, addr) : q < p}) = i

\* the supplied u32 index is below k
IndexBelow(k) == stdin[3].hi = 0 /\ stdin[3].lo < k

\* number of ABI words of a risc0_steel Commitment {id, digest, configID}
CommitmentWords == 3

\* length of the Journal encoding in bytes
JournalLen == (CommitmentWords + 2) * WordLen

\* w-th 32-byte word of a blob, as a verifier holding the schema reads it
Word(blob, w) == SubSeq(blob, (w - 1) * WordLen + 1, w * WordLen)

\* decoding by the published schema {Commitment, bytes32, bytes32}
abi_decode(blob) ==
    [commitment |-> [id |-> Word(blob, 1)[WordLen],
                     digest |-> Word(blob, 2),
                     configID |-> Word(blob, 3)],
     nttManagerMessageDigest |-> Word(blob, CommitmentWords + 1),
     emitterNttManager |-> Word(blob, CommitmentWords + 2)]

TypeOK ==
    /\ stdin \in Channels
    /\ pc \in [Runs -> Stages]
    /\ failure \in [Runs -> Failures]
    /\ \A r \in Runs :
        /\ Len(input[r]) <= 1 /\ Len(log_index[r]) <= 1
        /\ Len(env[r]) <= 1 /\ Len(log[r]) <= 1
        /\ contract_addr[r] \in Addresses \cup {<<>>}

---------------------------------------------------------------------------
\* C1: when the view is reconstructed and exactly k events match
\* {address, TransferSent}, any log index i >= k (i = 0 with k = 0 included,
\* and indices up to u32::MAX) ends in the event-not-found failure with no
\* journal written; the index is neither clamped nor wrapped.
C1_IndexOutOfRangeIsFatal ==
    \A r \in Runs :
        (Verifies /\ ~IndexBelow(MatchCount)) =>
            /\ journal[r] = <<>>
            /\ pc[r] \notin {"commit", "done"}
            /\ log[r] = <<>>
            /\ pc[r] = "panicked" => failure[r] = "EventNotFoundError"

\* index k itself, with k = 2 matching events, has ended in event-not-found
C1_Witness ==
    /\ Verifies /\ MatchCount = 2 /\ stdin[3] = U32(0, 2)
    /\ pc[1] = "panicked" /\ failure[1] = "EventNotFoundError" /\ journal[1] = <<>>

\* C2: with k matching events and 0 <= i < k the invocation succeeds and the
\* digest field of the journal is the digest of the i-th matching record in
\* emission order.
C2_SelectsIthInEmissionOrder ==
    \A r \in Runs :
        (Verifies /\ IndexBelow(MatchCount)) =>
            /\ pc[r] # "panicked"
            /\ pc[r] = "done" =>
                /\ Len(journal[r]) = 1
                /\ abi_decode(journal[r][1]).nttManagerMessageDigest
                     = stdin[1].logs[NthMatch(stdin[1].logs, stdin[2], stdin[3].lo)].digest

\* index 1 of two matching events with different digests has been committed
C2_Witness ==
    /\ Verifies /\ MatchCount = 2 /\ stdin[3] = U32(0, 1)
    /\ stdin[1].logs[1].digest # stdin[1].logs[2].digest
    /\ pc[1] = "done"
    /\ abi_decode(journal[1][1]).nttManagerMessageDigest = stdin[1].logs[2].digest

\* C3: the commitment field of every written journal is the commitment of
\* the view reconstructed from this invocation's bundle and the compiled-in
\* chain specification.
C3_CommitmentBinding ==
    \A r \in Runs :
        journal[r] # <<>> =>
            /\ Verifies
            /\ abi_decode(journal[r][1]).commitment
                 = [id |-> stdin[1].number,
                    digest |-> BlockHash(stdin[1].number),
                    configID |-> ETH_MAINNET_CHAIN_SPEC]

\* a journal for the second block has been written
C3_Witness ==
    /\ pc[1] = "done" /\ Len(stdin) = 3 /\ stdin[1].number = 2
    /\ abi_decode(journal[1][1]).commitment.id = 2

\* C4: to_universal_address maps every 20-byte address to 32 bytes whose
\* bytes 0..11 are zero and whose bytes 12..31 are the address in order; no
\* other address has the same image and the last 20 bytes give the address
\* back.
CanonicalLayout(addr, u) ==
    /\ Len(u) = WordLen
    /\ \A i \in 1..PadLen : u[i] = 0
    /\ \A i \in 1..AddrLen : u[PadLen + i] = addr[i]
    /\ SubSeq(u, PadLen + 1, WordLen) = addr

C4_CanonicalAddress ==
    /\ \A a \in Addresses : CanonicalLayout(a, to_universal_address(a))
    /\ \A r \in Runs :
        pc[r] = "done" =>
            LET u == abi_decode(journal[r][1]).emitterNttManager
            IN  /\ CanonicalLayout(stdin[2], u)
                /\ \A a \in Addresses \ {stdin[2]} : to_universal_address(a) # u

\* the address 0x0102..14 has been canonicalized into a committed journal
C4_Witness ==
    /\ pc[1] = "done" /\ contract_addr[1] = AddrSeq
    /\ abi_decode(journal[1][1]).emitterNttManager[PadLen + 1] = 1
    /\ abi_decode(journal[1][1]).emitterNttManager[WordLen] = AddrLen

\* C5: the output channel is written at most once, only by the final step
\* and only after decoding, reconstruction and selection succeeded; a failed
\* invocation has written nothing.
WrittenOnlyOnSuccess ==
    \A r \in Runs :
        /\ Len(journal[r]) <= 1
        /\ pc[r] = "panicked" => journal[r] = <<>>
        /\ journal[r] # <<>> =>
            /\ pc[r] = "done" /\ failure[r] = "none"
            /\ Verifies /\ IndexBelow(MatchCount)
            /\ input[r] # <<>> /\ env[r] # <<>> /\ log[r] # <<>>
            /\ Len(journal[r][1]) = JournalLen

WriteIsFinalStep ==
    \A r \in Runs :
        journal'[r] # journal[r] =>
            /\ pc[r] = "commit" /\ pc'[r] = "done"
            /\ journal[r] = <<>>

C5_SingleFinalWrite == []WrittenOnlyOnSuccess /\ [][WriteIsFinalStep]_vars

\* one journal has been written by an invocation that passed every stage
C5_Witness ==
    /\ pc[1] = "done" /\ Len(journal[1]) = 1 /\ failure[1] = "none"
    /\ input[1] # <<>> /\ env[1] # <<>> /\ log[1] # <<>>

\* C6: a bundle that does not reconstruct into a verified view ends the
\* invocation in the view-reconstruction failure with no output, whatever the
\* address and the index; the event query is never reached.
C6_ReconstructionFailureFirst ==
    \A r \in Runs :
        (Len(stdin) >= 1 /\ stdin[1].decodes /\ ~stdin[1].verifies) =>
            /\ journal[r] = <<>>
            /\ env[r] = <<>> /\ log[r] = <<>>
            /\ pc[r] \notin {"query", "commit", "done"}
            /\ failure[r] # "EventNotFoundError"
            /\ (Decodes /\ pc[r] = "panicked") => failure[r] = "ViewReconstructionError"

\* an unverifiable bundle with an index beyond its logs has failed in
\* reconstruction
C6_Witness ==
    /\ Decodes /\ ~stdin[1].verifies /\ ~IndexBelow(MatchCount)
    /\ pc[1] = "panicked" /\ failure[1] = "ViewReconstructionError"

C8_JournalLayout ==
    \A r \in Runs :
        \A n \in 1..Len(journal[r]) :
            LET blob == journal[r][n]
            IN  /\ Len(blob) = JournalLen
                /\ abi_decode(blob) =
                     [commitment |-> into_commitment(env[r][1]),
                      nttManagerMessageDigest |-> log[r][1].digest,
                      emitterNttManager |-> to_universal_address(contract_addr[r])]
                /\ Word(blob, 1) \o Word(blob, 2) \o Word(blob, 3)
                   \o log[r][1].digest \o to_universal_address(contract_addr[r]) = blob

\* a journal whose digest and emitter words differ has been written
C8_Witness ==
    /\ pc[1] = "done" /\ Len(journal[1]) = 1
    /\ Word(journal[1][1], CommitmentWords + 1) = DigestB
    /\ Word(journal[1][1], CommitmentWords + 2) = to_universal_address(AddrAA)

\* C9: every invocation ends, in one pass through the stages, either done
\* with exactly one journal or panicked with none; no stage is entered twice.
StageRank(stage) ==
    CASE stage = "read_input" -> 0
      [] stage = "read_addr"  -> 1
      [] stage = "read_index" -> 2
      [] stage = "into_env"   -> 3
      [] stage = "query"      -> 4
      [] stage = "commit"     -> 5
      [] stage \in {"done", "panicked"} -> 6

TwoOutcomes ==
    \A r \in Runs :
        /\ pc[r] = "done" => Len(journal[r]) = 1 /\ failure[r] = "none"
        /\ pc[r] = "panicked" => journal[r] = <<>> /\ failure[r] # "none"
        /\ ~Terminal(r) => journal[r] = <<>> /\ failure[r] = "none"

OnePass ==
    \A r \in Runs :
        /\ pc'[r] # pc[r] => StageRank(pc'[r]) > StageRank(pc[r])
        /\ Terminal(r) => pc'[r] = pc[r] /\ journal'[r] = journal[r]

C9_TerminatesInOnePass == <>Terminal(1) /\ []TwoOutcomes /\ [][OnePass]_vars

\* an invocation has halted at the last fallible stage without output
C9_Witness ==
    /\ pc[1] = "panicked" /\ failure[1] = "EventNotFoundError"
    /\ env[1] # <<>> /\ journal[1] = <<>>

\* C10: the emitter field is the canonical form of the caller-supplied
\* address, which is the emitting address of the selected record; events of
\* other contracts are never selected and never count toward the index.
C10_EmitterIsQueriedAddress ==
    \A r \in Runs :
        /\ log[r] # <<>> =>
            /\ log[r][1].address = stdin[2]
            /\ log[r][1].topic0 = EventSignature
            /\ IndexBelow(MatchCount)
            /\ log[r][1] = stdin[1].logs[NthMatch(stdin[1].logs, stdin[2], stdin[3].lo)]
        /\ pc[r] = "done" =>
            /\ abi_decode(journal[r][1]).emitterNttManager = to_universal_address(stdin[2])
            /\ abi_decode(journal[r][1]).emitterNttManager
                 = to_universal_address(log[r][1].address)

\* index 0 was committed from a block whose first TransferSent log belongs to
\* another contract
C10_Witness ==
    /\ pc[1] = "done" /\ stdin[3] = U32(0, 0)
    /\ stdin[1].logs[1].topic0 = EventSignature
    /\ stdin[1].logs[1].address # stdin[2]
    /\ log[1][1] = stdin[1].logs[2]

=============================================================================
